---- MODULE Spec2Model ----
(***************************************************************************)
(* Verification model of reddit-flair-analyzer.                            *)
(*                                                                         *)
(* Spec models one run of RedditAnalyzer.analyze_subreddit: the scraper    *)
(* (scraper.py) collecting posts either sequentially or through a          *)
(* ThreadPoolExecutor of max_workers threads working on batches of         *)
(* batch_size post ids, followed by _process_dataframe and the analysis.   *)
(***************************************************************************)
EXTENDS Integers, Sequences, FiniteSets, TLC

\* ---------------------------------------------------------------- bounds
MaxPosts == 6      \* longest ranked listing the Content Source holds
MaxLimit == 6      \* largest requested post limit N
MaxBatch == 3      \* largest batch_size B (the model also runs MaxBatch - 1)
MaxWorkers == 2    \* largest max_workers W
MaxRecords == 3    \* longest generated record set given to the analyzer

\* ------------------------------------------------------ program constants
min_posts == 5     \* analyzer.py:30, default used by analyze_subreddit

Absent == "<None>"         \* Python None for link_flair_text
NoFlair == "No Flair"      \* scraper.py:219

Min(a, b) == IF a <= b THEN a ELSE b
Max(a, b) == IF a >= b THEN a ELSE b

Clamp_None(x) == x

\* scraper.py:229 and analyzer.py:65  lambda x: max(x, 1), the divisor of a
\* derived ratio.
Clamp(x) == Max(x, 1)

\* ------------------------------------------------- the Content Source data
\* The post the Content Source holds under id i (ids are the ranks 1..n).
SourcePost(i) ==
  [id |-> i,
   link_flair_text |-> IF i = 2 THEN Absent ELSE IF i >= 7 THEN "B" ELSE "A",
   score |-> ((i * 37) % 11) - 2,
   num_comments |-> (i * 5) % 4]

\* _extract_post_data: the fields of the post, copied into a dict.
extract_post_data(post) ==
  [id |-> post.id,
   flair |-> post.link_flair_text,
   score |-> post.score,
   num_comments |-> post.num_comments]

VARIABLES
  listing,            \* the ranked listing subreddit.top() walks (ids)
  limit,              \* requested number of posts N
  batch_size,         \* self.batch_size B
  max_workers,        \* self.max_workers W
  use_multithreading, \* argument of scrape_subreddit
  pc,                 \* position of the coordinating (main) thread
  err,                \* kind of the exception that ended the run, or "none"
  yielded,            \* items the listing generator has yielded so far
  post_ids,           \* _scrape_with_multithreading: collected ids
  posts_data,         \* collected post dicts
  pool,               \* TRUE once the ThreadPoolExecutor exists
  futures,            \* future_to_batch: one entry per submitted batch
  workers,            \* the pool's threads
  df,                 \* DataFrame after _process_dataframe
  bundle,             \* dict returned by analyze_subreddit
  listing_calls,      \* history: calls of subreddit.top()
  hydrate_calls,      \* history: id -> calls of reddit.submission(id)
  failed,             \* history: ids whose hydration raised
  interrupted,        \* history: KeyboardInterrupt was delivered
  started_after,      \* history: batches started after the interrupt
  input_df,           \* analyze_flair_performance: the rows of the argument df
  columns,            \* analyze_flair_performance: the columns df has
  viral_threshold,    \* analyze_flair_performance: percentile argument P
  min_posts_arg,      \* analyze_flair_performance: min_posts argument M
  score_threshold,    \* the threshold score, as a fraction times 100
  analysis_df,        \* the copy of df with the added columns
  flair_stats,        \* rows returned by _calculate_flair_stats
  overall_metrics,    \* dict returned by _calculate_overall_metrics
  analysis_results,   \* dict returned by analyze_flair_performance
  tie_rank,           \* what the platform's sort was seen to do with equal keys
  calls,              \* analyze_flair_performance calls the caller has made
  first_results       \* what the caller's first call returned

vars == <<listing, limit, batch_size, max_workers, use_multithreading, pc, err,
          yielded, post_ids, posts_data, pool, futures, workers, df, bundle,
          listing_calls, hydrate_calls, failed, interrupted, started_after,
          input_df, columns, viral_threshold, min_posts_arg, score_threshold,
          analysis_df, flair_stats, overall_metrics, analysis_results,
          tie_rank, calls, first_results>>

\* The state of one analyze_flair_performance call.
analysis == <<input_df, columns, viral_threshold, min_posts_arg, score_threshold,
              analysis_df, flair_stats, overall_metrics, analysis_results,
              tie_rank, calls, first_results>>

\* What stays as it is during one analyze_flair_performance call: the sorting
\* routine of the platform and the caller's record of its earlier call.
caller == <<tie_rank, calls, first_results>>

config == <<listing, limit, batch_size, max_workers, use_multithreading>>

NoBundle == [none |-> TRUE]

Idle == [batch |-> 0, pos |-> 0, batch_data |-> <<>>, calling |-> FALSE]

\* analyze_subreddit calls the analyzer with viral_threshold=90 and the default
\* min_posts (__init__.py:49, 68-71); nothing is analysed yet.
RequiredColumns == {"flair", "score", "num_comments", "upvote_ratio"}

\* What a sorting routine can do with rows of equal key; which of the two the
\* platform's routine does is not known before it has sorted such rows.
TieOrders == {"kept", "reversed"}
Unseen == "unseen"
NoValue == "<None>"

AnalysisIdle ==
  /\ input_df = <<>>
  /\ columns = RequiredColumns
  /\ viral_threshold = 90
  /\ min_posts_arg = min_posts
  /\ score_threshold = NoValue
  /\ analysis_df = <<>>
  /\ flair_stats = <<>>
  /\ overall_metrics = NoValue
  /\ analysis_results = NoValue
  /\ tie_rank = Unseen
  /\ calls = 0
  /\ first_results = NoValue

Init ==
  /\ \E n \in 0..MaxPosts : listing = [i \in 1..n |-> i]
  /\ limit \in 1..MaxLimit
  /\ batch_size \in (MaxBatch - 1)..MaxBatch
  /\ max_workers \in 1..MaxWorkers
  /\ use_multithreading \in BOOLEAN
  /\ pc = "start"
  /\ err = "none"
  /\ yielded = 0
  /\ post_ids = <<>>
  /\ posts_data = <<>>
  /\ pool = FALSE
  /\ futures = <<>>
  /\ workers = <<>>
  /\ df = <<>>
  /\ bundle = NoBundle
  /\ listing_calls = 0
  /\ hydrate_calls = [i \in 1..Len(listing) |-> 0]
  /\ failed = {}
  /\ interrupted = FALSE
  /\ started_after = {}
  /\ AnalysisIdle

\* ------------------------------------------------------- scrape_subreddit
UseMultithreadingPath_Or(mt, n, b) == mt \/ n > b

\* scraper.py:91  "if use_multithreading and limit > self.batch_size"
UseMultithreadingPath(mt, n, b) == mt /\ n > b

\* What the listing generator subreddit.top(limit=limit) can still yield.
ListingHasNext == yielded < Min(limit, Len(listing))

AppendId_Front(ids, id) == <<id>> \o ids

\* scraper.py:145  post_ids.append(post.id)
AppendId(ids, id) == Append(ids, id)

ListingCallsOf_Twice(path) == IF path = "multithreading" THEN 2 ELSE 1

\* scraper.py:118 / 144: subreddit.top(...) is called once per path.
ListingCallsOf(path) == 1

\* scrape_subreddit up to the start of the collection loop of either path.
\* scraper.py:133  math.ceil(limit / self.batch_size) is the first statement
\* of _scrape_with_multithreading: it raises ZeroDivisionError when batch_size
\* is 0, before the listing is asked for anything.
ScrapeSubreddit ==
  /\ pc = "start"
  /\ IF UseMultithreadingPath(use_multithreading, limit, batch_size)
       THEN IF batch_size = 0
              THEN /\ pc' = "error"
                   /\ err' = "ZeroDivisionError"
                   /\ listing_calls' = listing_calls
              ELSE /\ pc' = "collect_ids"
                   /\ err' = err
                   /\ listing_calls' = listing_calls + ListingCallsOf("multithreading")
       ELSE /\ pc' = "sequential"
            /\ err' = err
            /\ listing_calls' = listing_calls + ListingCallsOf("sequential")
  /\ UNCHANGED <<analysis, config, yielded, post_ids, posts_data, pool, futures,
                 workers, df, bundle, hydrate_calls, failed, interrupted,
                 started_after>>

ListingFailurePc_Swallowed == "process"

\* scraper.py:106-108: an exception of the listing is logged and re-raised.
ListingFailurePc == "error"

\* The listing raises while the loop asks it for the next post (either path).
ListingFails ==
  /\ pc \in {"collect_ids", "sequential"}
  /\ pc' = ListingFailurePc
  /\ err' = "listing"
  /\ UNCHANGED <<analysis, config, yielded, post_ids, posts_data, pool, futures, workers,
                 df, bundle, listing_calls, hydrate_calls, failed, interrupted,
                 started_after>>

\* ---------------------------------------------------- _scrape_sequentially
\* One iteration of the loop at scraper.py:118-125 whose extraction succeeds.
SequentialStep ==
  /\ pc = "sequential"
  /\ ListingHasNext
  /\ yielded' = yielded + 1
  /\ posts_data' = Append(posts_data, extract_post_data(SourcePost(listing[yielded + 1])))
  /\ pc' = IF Len(posts_data') >= limit THEN "process" ELSE "sequential"
  /\ UNCHANGED <<analysis, config, err, post_ids, pool, futures, workers, df, bundle,
                 listing_calls, hydrate_calls, failed, interrupted, started_after>>

\* scraper.py:119: _extract_post_data raises; nothing catches it on this path.
SequentialExtractFails ==
  /\ pc = "sequential"
  /\ ListingHasNext
  /\ yielded' = yielded + 1
  /\ failed' = failed \cup {listing[yielded + 1]}
  /\ pc' = "error"
  /\ err' = "item"
  /\ UNCHANGED <<analysis, config, post_ids, posts_data, pool, futures, workers, df,
                 bundle, listing_calls, hydrate_calls, interrupted, started_after>>

\* The listing is exhausted: the for loop ends (scraper.py:127-128).
SequentialExhausted ==
  /\ pc = "sequential"
  /\ ~ListingHasNext
  /\ pc' = "process"
  /\ UNCHANGED <<analysis, config, err, yielded, post_ids, posts_data, pool, futures,
                 workers, df, bundle, listing_calls, hydrate_calls, failed,
                 interrupted, started_after>>

\* --------------------------------------------- _scrape_with_multithreading
\* One iteration of the id collection loop, scraper.py:144-150.
CollectId ==
  /\ pc = "collect_ids"
  /\ ListingHasNext
  /\ yielded' = yielded + 1
  /\ post_ids' = AppendId(post_ids, listing[yielded + 1])
  /\ pc' = IF Len(post_ids') >= limit THEN "create_pool" ELSE "collect_ids"
  /\ UNCHANGED <<analysis, config, err, posts_data, pool, futures, workers, df, bundle,
                 listing_calls, hydrate_calls, failed, interrupted, started_after>>

CollectExhausted ==
  /\ pc = "collect_ids"
  /\ ~ListingHasNext
  /\ pc' = "create_pool"
  /\ UNCHANGED <<analysis, config, err, yielded, post_ids, posts_data, pool, futures,
                 workers, df, bundle, listing_calls, hydrate_calls, failed,
                 interrupted, started_after>>

PoolSize_OneMore(w) == w + 1

\* scraper.py:156  ThreadPoolExecutor(max_workers=self.max_workers)
PoolSize(w) == w

\* ThreadPoolExecutor.__init__ raises ValueError("max_workers must be greater
\* than 0") for max_workers <= 0; scrape_subreddit logs and re-raises it.
CreatePool ==
  /\ pc = "create_pool"
  /\ IF max_workers <= 0
       THEN /\ pc' = "error"
            /\ err' = "ValueError: max_workers"
            /\ UNCHANGED <<pool, workers>>
       ELSE /\ pool' = TRUE
            /\ workers' = [w \in 1..PoolSize(max_workers) |-> Idle]
            /\ pc' = "submit"
            /\ err' = err
  /\ UNCHANGED <<analysis, config, yielded, post_ids, posts_data, futures, df,
                 bundle, listing_calls, hydrate_calls, failed, interrupted,
                 started_after>>

\* scraper.py:159  range(0, len(post_ids), batch_size): start of the next batch
NextStart == Len(futures) * batch_size

\* range(0, n, step) yields nothing when step is negative.
RangeHasNext == batch_size > 0 /\ NextStart < Len(post_ids)

Slice_OneShort(ids, i, b) == SubSeq(ids, i + 1, Min(i + b - 1, Len(ids)))

\* scraper.py:160  post_ids[i:i + self.batch_size]
Slice(ids, i, b) == SubSeq(ids, i + 1, Min(i + b, Len(ids)))

\* One iteration of the submit loop, scraper.py:159-162.
SubmitBatch ==
  /\ pc = "submit"
  /\ RangeHasNext
  /\ futures' = Append(futures, [ids |-> Slice(post_ids, NextStart, batch_size),
                                  state |-> "queued",
                                  result |-> <<>>,
                                  collected |-> FALSE])
  /\ UNCHANGED <<analysis, config, pc, err, yielded, post_ids, posts_data, pool, workers,
                 df, bundle, listing_calls, hydrate_calls, failed, interrupted,
                 started_after>>

SubmitDone ==
  /\ pc = "submit"
  /\ ~RangeHasNext
  /\ pc' = "as_completed"
  /\ UNCHANGED <<analysis, config, err, yielded, post_ids, posts_data, pool, futures,
                 workers, df, bundle, listing_calls, hydrate_calls, failed,
                 interrupted, started_after>>

\* The executor's work queue is FIFO: the oldest queued batch.
Queued == {k \in 1..Len(futures) : futures[k].state = "queued"}
QueueHead == CHOOSE k \in Queued : \A j \in Queued : k <= j

\* A pool thread takes the next batch and enters _process_post_batch.
WorkerTakes(w) ==
  /\ w \in DOMAIN workers
  /\ workers[w].batch = 0
  /\ Queued # {}
  /\ workers' = [workers EXCEPT ![w] = [batch |-> QueueHead, pos |-> 1,
                                         batch_data |-> <<>>, calling |-> FALSE]]
  /\ futures' = [futures EXCEPT ![QueueHead].state = "running"]
  /\ started_after' = IF interrupted THEN started_after \cup {QueueHead}
                                     ELSE started_after
  /\ UNCHANGED <<analysis, config, pc, err, yielded, post_ids, posts_data, pool, df,
                 bundle, listing_calls, hydrate_calls, failed, interrupted>>

\* The id the worker is at in its batch.
CurrentId(w) == futures[workers[w].batch].ids[workers[w].pos]

InBatch(w) ==
  /\ w \in DOMAIN workers
  /\ workers[w].batch # 0
  /\ workers[w].pos <= Len(futures[workers[w].batch].ids)

\* scraper.py:179  self.reddit.submission(id=post_id): the call is issued.
HydrateStart(w) ==
  /\ InBatch(w)
  /\ ~workers[w].calling
  /\ workers' = [workers EXCEPT ![w].calling = TRUE]
  /\ hydrate_calls' = [hydrate_calls EXCEPT ![CurrentId(w)] = @ + 1]
  /\ UNCHANGED <<analysis, config, pc, err, yielded, post_ids, posts_data, pool, futures,
                 df, bundle, listing_calls, failed, interrupted, started_after>>

\* scraper.py:180-184: the post was fetched and extracted.
HydrateOk(w) ==
  /\ InBatch(w)
  /\ workers[w].calling
  /\ workers' = [workers EXCEPT ![w].calling = FALSE,
                                ![w].pos = @ + 1,
                                ![w].batch_data =
                                   Append(@, extract_post_data(SourcePost(CurrentId(w))))]
  /\ UNCHANGED <<analysis, config, pc, err, yielded, post_ids, posts_data, pool, futures,
                 df, bundle, listing_calls, hydrate_calls, failed, interrupted,
                 started_after>>

\* scraper.py:186-189: the call or the extraction raised; the item is dropped.
HydrateFails(w) ==
  /\ InBatch(w)
  /\ workers[w].calling
  /\ workers' = [workers EXCEPT ![w].calling = FALSE, ![w].pos = @ + 1]
  /\ failed' = failed \cup {CurrentId(w)}
  /\ UNCHANGED <<analysis, config, pc, err, yielded, post_ids, posts_data, pool, futures,
                 df, bundle, listing_calls, hydrate_calls, interrupted,
                 started_after>>

\* scraper.py:191  return batch_data: the future completes, the thread is free.
BatchReturns(w) ==
  /\ w \in DOMAIN workers
  /\ workers[w].batch # 0
  /\ workers[w].pos > Len(futures[workers[w].batch].ids)
  /\ futures' = [futures EXCEPT ![workers[w].batch].state = "done",
                                ![workers[w].batch].result = workers[w].batch_data]
  /\ workers' = [workers EXCEPT ![w] = Idle]
  /\ UNCHANGED <<analysis, config, pc, err, yielded, post_ids, posts_data, pool, df,
                 bundle, listing_calls, hydrate_calls, failed, interrupted,
                 started_after>>

Extend_Assign(posts, batch_posts) == batch_posts

Extend_Twice(posts, batch_posts) == posts \o batch_posts \o batch_posts

\* scraper.py:167  posts_data.extend(batch_posts)
Extend(posts, batch_posts) == posts \o batch_posts

\* One iteration of the as_completed loop, scraper.py:165-167.
CollectResult(k) ==
  /\ pc = "as_completed"
  /\ k \in 1..Len(futures)
  /\ futures[k].state = "done"
  /\ ~futures[k].collected
  /\ posts_data' = Extend(posts_data, futures[k].result)
  /\ futures' = [futures EXCEPT ![k].collected = TRUE]
  /\ UNCHANGED <<analysis, config, pc, err, yielded, post_ids, pool, workers, df, bundle,
                 listing_calls, hydrate_calls, failed, interrupted, started_after>>

AllCollected_First(futs) == \E k \in 1..Len(futs) : futs[k].collected

\* as_completed is exhausted once every future was yielded.
AllCollected(futs) == \A k \in 1..Len(futs) : futs[k].collected

\* End of the loop and of the with-blocks, scraper.py:168-170.
HydrationDone ==
  /\ pc = "as_completed"
  /\ AllCollected(futures)
  /\ pc' = "process"
  /\ UNCHANGED <<analysis, config, err, yielded, post_ids, posts_data, pool, futures,
                 workers, df, bundle, listing_calls, hydrate_calls, failed,
                 interrupted, started_after>>

\* KeyboardInterrupt reaches the main thread while it waits in as_completed:
\* the executor's with-block is left through __exit__, i.e. shutdown(wait=True),
\* which cancels no queued work item.
Interrupt ==
  /\ pc = "as_completed"
  /\ interrupted' = TRUE
  /\ pc' = "shutdown"
  /\ UNCHANGED <<analysis, config, err, yielded, post_ids, posts_data, pool, futures,
                 workers, df, bundle, listing_calls, hydrate_calls, failed,
                 started_after>>

\* shutdown(wait=True) joins the threads; they leave when the queue is empty.
ShutdownReturns ==
  /\ pc = "shutdown"
  /\ Queued = {}
  /\ \A w \in DOMAIN workers : workers[w].batch = 0
  /\ pc' = "error"
  /\ err' = "interrupt"
  /\ UNCHANGED <<analysis, config, yielded, post_ids, posts_data, pool, futures, workers,
                 df, bundle, listing_calls, hydrate_calls, failed, interrupted,
                 started_after>>

\* ------------------------------------------------------ _process_dataframe
fillna_Keep(flair) == flair

\* scraper.py:219  df['flair'].fillna('No Flair')
fillna(flair) == IF flair = Absent THEN NoFlair ELSE flair

\* scraper.py:216-231, one row (the date columns are not modelled).
process_row(r) ==
  [id |-> r.id,
   flair |-> fillna(r.flair),
   score |-> r.score,
   num_comments |-> r.num_comments,
   comment_ratio |-> [num |-> r.num_comments, den |-> Clamp(r.score)]]

process_dataframe(rows) == [i \in 1..Len(rows) |-> process_row(rows[i])]

\* scraper.py:97-100: DataFrame(posts_data) and _process_dataframe.  A frame
\* built from no rows has no 'flair' column and df['flair'] raises KeyError.
ProcessDataframe ==
  /\ pc = "process"
  /\ IF posts_data = <<>>
       THEN /\ pc' = "error"
            /\ err' = "KeyError"
            /\ df' = df
       ELSE /\ pc' = "analyze"
            /\ err' = err
            /\ df' = process_dataframe(posts_data)
  /\ UNCHANGED <<analysis, config, yielded, post_ids, posts_data, pool, futures, workers,
                 bundle, listing_calls, hydrate_calls, failed, interrupted,
                 started_after>>

\* ------------------------------------------------ analyze_flair_performance
Flairs(rows) == {rows[i].flair : i \in 1..Len(rows)}
CountOf(rows, f) == Cardinality({i \in 1..Len(rows) : rows[i].flair = f})

\* analyzer.py:140  stats[stats['total_posts'] >= min_posts]
AnalyzedFlairs(rows) == {f \in Flairs(rows) : CountOf(rows, f) >= min_posts}

\* __init__.py:75-81: the keys of the dict analyze_subreddit returns.  The
\* statistics themselves are the subject of the analysis specification; here
\* flair_stats is represented by the labels of its rows.
ResultBundle(rows) ==
  [posts_df |-> rows,
   flair_stats |-> AnalyzedFlairs(rows),
   viral_threshold |-> "score_threshold",
   subreddit |-> "subreddit",
   metrics |-> [total_posts |-> Len(rows),
                total_flairs |-> Cardinality(Flairs(rows)),
                analyzed_flairs |-> Cardinality(AnalyzedFlairs(rows))]]

\* __init__.py:68-81.  With no flair left by the min_posts filter,
\* _print_analysis_summary formats most_viral_rate = None with ':.2%'
\* (analyzer.py:198) and raises TypeError.
Analyze ==
  /\ pc = "analyze"
  /\ IF AnalyzedFlairs(df) = {}
       THEN /\ pc' = "error"
            /\ err' = "TypeError"
            /\ bundle' = bundle
       ELSE /\ pc' = "done"
            /\ err' = err
            /\ bundle' = ResultBundle(df)
  /\ UNCHANGED <<analysis, config, yielded, post_ids, posts_data, pool, futures, workers,
                 df, listing_calls, hydrate_calls, failed, interrupted,
                 started_after>>

\* ------------------------------------------------------------------- spec
Worker(w) ==
  \/ WorkerTakes(w)
  \/ HydrateStart(w)
  \/ HydrateOk(w)
  \/ HydrateFails(w)
  \/ BatchReturns(w)

Next ==
  \/ ScrapeSubreddit
  \/ ListingFails
  \/ SequentialStep
  \/ SequentialExtractFails
  \/ SequentialExhausted
  \/ CollectId
  \/ CollectExhausted
  \/ CreatePool
  \/ SubmitBatch
  \/ SubmitDone
  \/ \E w \in DOMAIN workers : Worker(w)
  \/ \E k \in 1..Len(futures) : CollectResult(k)
  \/ HydrationDone
  \/ Interrupt
  \/ ShutdownReturns
  \/ ProcessDataframe
  \/ Analyze

Spec == Init /\ [][Next]_vars

\* =============================================== analyze_flair_performance
\* A DataFrame is modelled by its rows; a fraction a/b by [num |-> a, den |-> b]
\* with b > 0, so that no rounding enters the comparisons.
Frac(a, b) == [num |-> a, den |-> b]
FracLess(x, y) == x.num * y.den < y.num * x.den
FracEq(x, y) == x.num * y.den = y.num * x.den

\* analyzer.py:49-54: the first required column the frame lacks, if any.
MissingColumns(cols) == RequiredColumns \ cols

ScoresOf(rows) == [i \in 1..Len(rows) |-> rows[i].score]

\* The k-th smallest element of a sequence of numbers (k = 1 is the minimum).
Nth(xs, k) ==
  CHOOSE v \in {xs[i] : i \in 1..Len(xs)} :
    /\ Cardinality({i \in 1..Len(xs) : xs[i] < v}) < k
    /\ Cardinality({i \in 1..Len(xs) : xs[i] <= v}) >= k

Lerp_Swapped(a, b, t) == 100 * b + t * (a - b)

Lerp_Upper(a, b, t) == 100 * b

Lerp_Nearest(a, b, t) == IF 2 * t >= 100 THEN 100 * b ELSE 100 * a

\* Linear interpolation between two neighbouring ranks, times 100; t is the
\* fractional part of the rank in hundredths.
Lerp(a, b, t) == 100 * a + t * (b - a)

\* analyzer.py:57  Series.quantile(viral_threshold / 100), interpolation
\* 'linear': the value at rank q * (n - 1) of the sorted scores, times 100.
Quantile100(xs, P) ==
  LET n == Len(xs)
      pos == P * (n - 1)
      lo == pos \div 100
  IN Lerp(Nth(xs, lo + 1), Nth(xs, Min(lo + 2, n)), pos % 100)

IsViral_Strict(score, threshold100) == 100 * score > threshold100

\* analyzer.py:61  analysis_df['score'] >= score_threshold
IsViral(score, threshold100) == 100 * score >= threshold100

\* analyzer.py:60-65: the added columns of one row.
analysis_row(r, threshold100) ==
  [flair |-> r.flair,
   score |-> r.score,
   num_comments |-> r.num_comments,
   is_viral |-> IsViral(r.score, threshold100),
   engagement |-> r.num_comments + r.score,
   efficiency |-> Frac(r.score, Clamp(r.num_comments))]

\* The sum of the column values xs[i] over the row positions I.
SumOver(xs, I) ==
  LET RECURSIVE sum(_)
      sum(J) == IF J = {} THEN 0
                ELSE LET i == CHOOSE j \in J : TRUE
                     IN xs[i] + sum(J \ {i})
  IN sum(I)

\* The column df['num_comments'].
CommentsOf(rows) == [i \in 1..Len(rows) |-> rows[i].num_comments]

\* analyzer.py:87-124: the statistics of the group of one flair.
GroupStats(rows, f) ==
  LET I == {i \in 1..Len(rows) : rows[i].flair = f}
      viral == {i \in I : rows[i].is_viral}
  IN [flair |-> f,
      total_posts |-> Cardinality(I),
      num_viral_posts |-> Cardinality(viral),
      viral_rate |-> Frac(Cardinality(viral), Cardinality(I)),
      avg_score |-> Frac(SumOver(ScoresOf(rows), I), Cardinality(I)),
      max_score |-> CHOOSE v \in {rows[i].score : i \in I} :
                      \A i \in I : rows[i].score <= v]

\* analyzer.py:87  df.groupby('flair'): one group per label; groupby leaves
\* out the rows whose key is null (dropna=True is its default).
GroupLabels(rows) == {rows[i].flair : i \in 1..Len(rows)} \ {Absent}

\* analyzer.py:87-124: the aggregated columns, one row per group.
BasicStats(rows) == {GroupStats(rows, f) : f \in GroupLabels(rows)}

\* The greatest avg_score among the groups that will survive the filter.
MaxAvgScore_Surviving(S) ==
  LET K == {st \in S : st.total_posts >= min_posts_arg}
      T == IF K = {} THEN S ELSE K
  IN CHOOSE m \in {st.avg_score : st \in T} :
       \A st \in T : ~FracLess(m, st.avg_score)

\* analyzer.py:136  stats['avg_score'].max(), taken over the whole stats
\* table: the filter of line 140 comes later.
MaxAvgScore(S) ==
  CHOOSE m \in {st.avg_score : st \in S} : \A st \in S : ~FracLess(m, st.avg_score)

\* analyzer.py:136  stats['avg_score'] / stats['avg_score'].max() in floating
\* point: a zero divisor raises nothing, it gives nan (0/0) or an infinity.
ScoreTerm(avg, mx) ==
  IF mx.num = 0
    THEN [kind |-> IF avg.num = 0 THEN "nan" ELSE IF avg.num < 0 THEN "-inf" ELSE "inf",
          num |-> 0, den |-> 1]
    ELSE IF mx.num > 0
      THEN [kind |-> "finite", num |-> avg.num * mx.den, den |-> avg.den * mx.num]
      ELSE [kind |-> "finite", num |-> -(avg.num * mx.den), den |-> -(avg.den * mx.num)]

\* analyzer.py:127-137.  confidence = 1 - 1/sqrt(total_posts) is irrational in
\* general, so viral_score = 0.5 * viral_rate + 0.3 * score_term
\* + 0.2 * confidence is kept exactly as  rational - 0.2/sqrt(inv_sqrt_of)
\* with rational = viral_rate/2 + 3*score_term/10 + 1/5.
ViralScore(st, term) ==
  [kind |-> term.kind,
   rational |-> IF term.kind = "finite"
                  THEN Frac(5 * st.viral_rate.num * term.den
                              + 3 * term.num * st.viral_rate.den
                              + 2 * st.viral_rate.den * term.den,
                            10 * st.viral_rate.den * term.den)
                  ELSE Frac(0, 1),
   inv_sqrt_of |-> st.total_posts]

ScoredStats(st, mx) ==
  [flair |-> st.flair,
   total_posts |-> st.total_posts,
   num_viral_posts |-> st.num_viral_posts,
   viral_rate |-> st.viral_rate,
   avg_score |-> st.avg_score,
   max_score |-> st.max_score,
   score_term |-> ScoreTerm(st.avg_score, mx),
   viral_score |-> LET term == ScoreTerm(st.avg_score, mx) IN ViralScore(st, term)]

\* analyzer.py:87-137: the stats frame before the filter, one row per group.
AllStats(rows) ==
  LET basic == BasicStats(rows)
      mx == MaxAvgScore(basic)
  IN {ScoredStats(st, mx) : st \in basic}

KeepGroup_None(st, m) == TRUE

KeepGroup_Strict(st, m) == st.total_posts > m

\* analyzer.py:140  stats['total_posts'] >= min_posts
KeepGroup(st, m) == st.total_posts >= m

FilteredStats(rows, m) == {st \in AllStats(rows) : KeepGroup(st, m)}

SortedBefore_Ascending(a, b) == FracLess(a.viral_rate, b.viral_rate)

\* analyzer.py:143  sort_values('viral_rate', ascending=False): a row with a
\* greater viral_rate comes first.
SortedBefore(a, b) == FracLess(b.viral_rate, a.viral_rate)

\* The orders sort_values can return: its default kind is quicksort, which is
\* not stable, so rows of equal viral_rate may come out in any order.
SortOutcomes(S) ==
  LET k == Cardinality(S)
  IN {q \in [1..k -> S] :
        /\ \A i, j \in 1..k : i # j => q[i] # q[j]
        /\ \A i, j \in 1..k : SortedBefore(q[j], q[i]) => j < i}

\* The alphabetical order of the labels the model uses.
LabelRank(f) == IF f = "A" THEN 1 ELSE IF f = "B" THEN 2 ELSE 3

\* The labels in the order of first appearance in the rows (sort=False).
GroupOrder_Appearance(rows) ==
  LET L == GroupLabels(rows)
      first(f) == CHOOSE i \in 1..Len(rows) :
                    /\ rows[i].flair = f
                    /\ \A j \in 1..(i - 1) : rows[j].flair # f
  IN CHOOSE q \in [1..Cardinality(L) -> L] :
       \A i, j \in 1..Cardinality(L) : i < j => first(q[i]) < first(q[j])

\* analyzer.py:87  groupby('flair') sorts the group keys (sort=True): the rows
\* of the stats table are in ascending label order, whatever the order of df.
GroupOrder(rows) ==
  LET L == GroupLabels(rows)
  IN CHOOSE q \in [1..Cardinality(L) -> L] :
       \A i, j \in 1..Cardinality(L) : i < j => LabelRank(q[i]) < LabelRank(q[j])

TablePosition(order, f) == CHOOSE i \in 1..Len(order) : order[i] = f

\* Two rows of the table have the same sort key.
HasTies(S) == \E a, b \in S : a # b /\ FracEq(a.viral_rate, b.viral_rate)

\* The sorting routine is a function of the table it is given: on one platform
\* the same table always comes back in the same order.  ties tells whether
\* that platform leaves rows of equal viral_rate in the order of the table
\* ("kept") or not ("reversed"); it plays no part for a table without ties.
SortValues(S, order, ties) ==
  CHOOSE q \in SortOutcomes(S) :
    \A i, j \in 1..Len(q) :
      (i < j /\ FracEq(q[i].viral_rate, q[j].viral_rate))
        => IF ties = "kept"
             THEN TablePosition(order, q[i].flair) < TablePosition(order, q[j].flair)
             ELSE TablePosition(order, q[i].flair) > TablePosition(order, q[j].flair)

\* analyzer.py:161-164: the first row, and the first row of greatest avg_score.
IdxMaxAvgScore(st) ==
  CHOOSE i \in 1..Len(st) :
    /\ \A j \in 1..Len(st) : ~FracLess(st[i].avg_score, st[j].avg_score)
    /\ \A j \in 1..(i - 1) : FracLess(st[j].avg_score, st[i].avg_score)

\* analyzer.py:147-167  _calculate_overall_metrics (len(df) > 0).
calculate_overall_metrics(rows, st) ==
  LET viral == {i \in 1..Len(rows) : rows[i].is_viral}
  IN [total_posts |-> Len(rows),
      total_viral_posts |-> Cardinality(viral),
      viral_post_percentage |-> Frac(100 * Cardinality(viral), Len(rows)),
      total_flairs |-> Cardinality({rows[i].flair : i \in 1..Len(rows)}),
      analyzed_flairs |-> Len(st),
      avg_score_all_posts |-> Frac(SumOver(ScoresOf(rows), 1..Len(rows)), Len(rows)),
      avg_comments_all_posts |-> Frac(SumOver(CommentsOf(rows), 1..Len(rows)), Len(rows)),
      most_viral_flair |-> IF st # <<>> THEN st[1].flair ELSE NoValue,
      most_viral_rate |-> IF st # <<>> THEN st[1].viral_rate ELSE NoValue,
      highest_avg_score_flair |->
        IF st # <<>> THEN st[IdxMaxAvgScore(st)].flair ELSE NoValue,
      highest_avg_score |->
        IF st # <<>> THEN st[IdxMaxAvgScore(st)].avg_score ELSE NoValue]

\* ------------------------------------------------------- analysis inputs
AnalysisFlairs == {"A", "B"}
AnalysisScores == {-5, 0, 10}
Row(f, sc) == [flair |-> f, score |-> sc, num_comments |-> (sc + 5) % 4]
RecordTypes == {Row(f, sc) : f \in AnalysisFlairs, sc \in AnalysisScores}
GeneratedFrames == UNION {[1..k -> RecordTypes] : k \in 0..MaxRecords}

\* The end-to-end example: {A:100, A:10, B:50, B:5, B:60}.
ExampleFrame == <<Row("A", 100), Row("A", 10), Row("B", 50), Row("B", 5), Row("B", 60)>>
\* Five records of one flair and a single record of another.
FilterFrame == <<Row("A", 10), Row("A", 0), Row("B", 10), Row("A", 10), Row("A", -5), Row("A", 0)>>

Percentiles == {-10, 0, 50, 80, 100, 110}
MinPostsArgs == {-1, 1, 2, 5}

ScraperIdle ==
  /\ listing = <<>>
  /\ limit = 1
  /\ batch_size = MaxBatch
  /\ max_workers = 1
  /\ use_multithreading = FALSE
  /\ err = "none"
  /\ yielded = 0
  /\ post_ids = <<>>
  /\ posts_data = <<>>
  /\ pool = FALSE
  /\ futures = <<>>
  /\ workers = <<>>
  /\ df = <<>>
  /\ bundle = NoBundle
  /\ listing_calls = 0
  /\ hydrate_calls = <<>>
  /\ failed = {}
  /\ interrupted = FALSE
  /\ started_after = {}

\* The scraper's variables, which the analyzer leaves alone.
scraper == <<config, yielded, post_ids, posts_data, pool, futures, workers, df,
             bundle, listing_calls, hydrate_calls, failed, interrupted,
             started_after>>

\* A direct call analyze_flair_performance(df, viral_threshold, min_posts).
InitAnalysis ==
  /\ ScraperIdle
  /\ pc = "a_validate"
  /\ input_df \in GeneratedFrames \cup {ExampleFrame, FilterFrame}
  /\ \/ /\ columns = RequiredColumns
        /\ viral_threshold \in Percentiles
        /\ min_posts_arg \in MinPostsArgs
     \/ /\ columns = RequiredColumns \ {"score"}
        /\ viral_threshold = 90
        /\ min_posts_arg = min_posts
  /\ score_threshold = NoValue
  /\ analysis_df = <<>>
  /\ flair_stats = <<>>
  /\ overall_metrics = NoValue
  /\ analysis_results = NoValue
  /\ tie_rank = Unseen
  /\ calls = 1
  /\ first_results = NoValue

\* analyzer.py:46-54: copy the frame and check the required columns.
ValidateColumns ==
  /\ pc = "a_validate"
  /\ IF MissingColumns(columns) # {}
       THEN /\ pc' = "error"
            /\ err' = "ValueError: required column"
       ELSE /\ pc' = "a_quantile"
            /\ err' = err
  /\ UNCHANGED <<scraper, analysis>>

\* analyzer.py:57: pandas rejects a quantile outside [0, 1] with ValueError;
\* the quantile of an empty column is NaN.
ComputeThreshold ==
  /\ pc = "a_quantile"
  /\ IF viral_threshold \notin 0..100
       THEN /\ pc' = "error"
            /\ err' = "ValueError: percentile"
            /\ score_threshold' = score_threshold
       ELSE /\ pc' = "a_mark"
            /\ err' = err
            /\ score_threshold' = IF input_df = <<>> THEN "nan"
                                  ELSE Quantile100(ScoresOf(input_df), viral_threshold)
  /\ UNCHANGED <<scraper, caller, input_df, columns, viral_threshold, min_posts_arg,
                 analysis_df, flair_stats, overall_metrics, analysis_results>>

CallerFrameAfter_Shared(frame, marked) == marked

\* analyzer.py:47  analysis_df = df.copy(): the columns added at lines 61-65
\* go to the copy, the caller's frame keeps its rows.
CallerFrameAfter(frame, marked) == frame

\* analyzer.py:60-65: is_viral, engagement and efficiency are added to the copy.
MarkViral ==
  /\ pc = "a_mark"
  /\ analysis_df' = [i \in 1..Len(input_df) |-> analysis_row(input_df[i], score_threshold)]
  /\ input_df' = CallerFrameAfter(input_df, analysis_df')
  /\ pc' = "a_stats"
  /\ UNCHANGED <<scraper, caller, err, columns, viral_threshold, min_posts_arg,
                 score_threshold, flair_stats, overall_metrics, analysis_results>>

\* analyzer.py:84-145  _calculate_flair_stats: group, filter, sort.
CalculateFlairStats ==
  /\ pc = "a_stats"
  /\ \E t \in (IF tie_rank = Unseen THEN TieOrders ELSE {tie_rank}) :
       /\ flair_stats' = SortValues(FilteredStats(analysis_df, min_posts_arg),
                                    GroupOrder(analysis_df), t)
       /\ tie_rank' = IF HasTies(FilteredStats(analysis_df, min_posts_arg))
                        THEN t ELSE tie_rank
  /\ pc' = "a_metrics"
  /\ UNCHANGED <<scraper, calls, first_results, err, input_df, columns, viral_threshold, min_posts_arg,
                 score_threshold, analysis_df, overall_metrics, analysis_results>>

\* analyzer.py:147-167  _calculate_overall_metrics; line 154 divides by len(df).
CalculateOverallMetrics ==
  /\ pc = "a_metrics"
  /\ IF analysis_df = <<>>
       THEN /\ pc' = "error"
            /\ err' = "ZeroDivisionError"
            /\ overall_metrics' = overall_metrics
       ELSE /\ pc' = "a_print"
            /\ err' = err
            /\ overall_metrics' = calculate_overall_metrics(analysis_df, flair_stats)
  /\ UNCHANGED <<scraper, caller, input_df, columns, viral_threshold, min_posts_arg,
                 score_threshold, analysis_df, flair_stats, analysis_results>>

\* analyzer.py:169-200  _print_analysis_summary: line 198 formats
\* most_viral_rate with ':.2%', a TypeError when it is None.
PrintAnalysisSummary ==
  /\ pc = "a_print"
  /\ IF overall_metrics.most_viral_flair = NoValue
       THEN /\ pc' = "error"
            /\ err' = "TypeError"
       ELSE /\ pc' = "a_return"
            /\ err' = err
  /\ UNCHANGED <<scraper, analysis>>

\* analyzer.py:78-82: the returned dict.
ReturnResults ==
  /\ pc = "a_return"
  /\ analysis_results' = [flair_stats |-> flair_stats,
                          viral_threshold |-> score_threshold,
                          metrics |-> overall_metrics]
  /\ pc' = "returned"
  /\ UNCHANGED <<scraper, caller, err, input_df, columns, viral_threshold, min_posts_arg,
                 score_threshold, analysis_df, flair_stats, overall_metrics>>

\* ------------------------------------------------------ any configuration
\* The constructor arguments scraper.py:35-41 stores without looking at them:
\* batch_size and max_workers may be zero or negative.
BatchSizes == {-1, 0, MaxBatch - 1}
WorkerLimits == {-1, 0, 1}

InitConfig ==
  /\ \E n \in 0..MaxPosts : listing = [i \in 1..n |-> i]
  /\ limit \in 1..MaxLimit
  /\ batch_size \in BatchSizes
  /\ max_workers \in WorkerLimits
  /\ use_multithreading \in BOOLEAN
  /\ pc = "start"
  /\ err = "none"
  /\ yielded = 0
  /\ post_ids = <<>>
  /\ posts_data = <<>>
  /\ pool = FALSE
  /\ futures = <<>>
  /\ workers = <<>>
  /\ df = <<>>
  /\ bundle = NoBundle
  /\ listing_calls = 0
  /\ hydrate_calls = [i \in 1..Len(listing) |-> 0]
  /\ failed = {}
  /\ interrupted = FALSE
  /\ started_after = {}
  /\ AnalysisIdle

NextAnalysis ==
  \/ ValidateColumns
  \/ ComputeThreshold
  \/ MarkViral
  \/ CalculateFlairStats
  \/ CalculateOverallMetrics
  \/ PrintAnalysisSummary
  \/ ReturnResults

SpecAnalysis == InitAnalysis /\ [][NextAnalysis]_vars

\* The caller keeps the returned dict and calls analyze_flair_performance a
\* second time with the same frame object and the same arguments; the locals
\* of the new call are fresh.
CallAgain ==
  /\ pc = "returned"
  /\ calls = 1
  /\ first_results' = analysis_results
  /\ calls' = 2
  /\ pc' = "a_validate"
  /\ score_threshold' = NoValue
  /\ analysis_df' = <<>>
  /\ flair_stats' = <<>>
  /\ overall_metrics' = NoValue
  /\ analysis_results' = NoValue
  /\ UNCHANGED <<scraper, err, input_df, columns, viral_threshold, min_posts_arg,
                 tie_rank>>

\* A direct call with a frame that was not normalized by _process_dataframe:
\* the flair of a record may be None.
MaxRawRecords == 2
RawRecordTypes == RecordTypes \cup {Row(Absent, sc) : sc \in AnalysisScores}
RawFrames == UNION {[1..k -> RawRecordTypes] : k \in 0..MaxRawRecords}

InitRaw ==
  /\ ScraperIdle
  /\ pc = "a_validate"
  /\ input_df \in RawFrames
  /\ columns = RequiredColumns
  /\ viral_threshold \in Percentiles
  /\ min_posts_arg \in MinPostsArgs
  /\ score_threshold = NoValue
  /\ analysis_df = <<>>
  /\ flair_stats = <<>>
  /\ overall_metrics = NoValue
  /\ analysis_results = NoValue
  /\ tie_rank = Unseen
  /\ calls = 1
  /\ first_results = NoValue

SpecRaw == InitRaw /\ [][NextAnalysis]_vars

NextTwice == NextAnalysis \/ CallAgain
SpecTwice == InitAnalysis /\ [][NextTwice]_vars

\* A run from either entry point (analyze_subreddit or
\* analyze_flair_performance) with any parameter values.
NextConfig == Next \/ NextAnalysis
SpecConfig == (InitConfig \/ InitAnalysis) /\ [][NextConfig]_vars

\* ================================================================ claims
Range(f) == {f[i] : i \in DOMAIN f}
Running == {k \in 1..Len(futures) : futures[k].state = "running"}
Calling(k) == {w \in DOMAIN workers : workers[w].batch = k /\ workers[w].calling}
RowsOf(rows, id) == {i \in 1..Len(rows) : rows[i].id = id}
Collected == pc \in {"process", "analyze", "done"}

\* C1: during multithreaded hydration at most max_workers batches are being
\* hydrated at once, and within one batch at most one hydration call is in
\* progress at a time.
C1_BoundedConcurrency ==
  /\ Cardinality(Running) <= max_workers
  /\ \A k \in 1..Len(futures) : Cardinality(Calling(k)) <= 1
  /\ \A w \in DOMAIN workers :
       workers[w].calling => futures[workers[w].batch].state = "running"

C1_Witness ==
  /\ max_workers = 2
  /\ Cardinality(Running) = 2
  /\ \A k \in Running : Cardinality(Calling(k)) = 1
  /\ Queued # {}

\* C2: whatever set of hydration calls fails and however the workers
\* interleave, multithreaded hydration is never aborted by an item, never gets
\* stuck before all batches are collected, and returns exactly one record for
\* each collected id whose call did not fail and none for the others.
C2_PartialFailureIsolation ==
  /\ pool => err # "item"
  /\ (pc = "as_completed" /\ ~AllCollected(futures)) =>
        \/ ENABLED (\E w \in DOMAIN workers : Worker(w))
        \/ ENABLED (\E k \in 1..Len(futures) : CollectResult(k))
  /\ (pool /\ Collected) =>
        /\ Len(posts_data) = Len(post_ids) - Cardinality(failed)
        /\ failed \subseteq Range(post_ids)
        /\ \A id \in Range(post_ids) :
             Cardinality(RowsOf(posts_data, id)) = IF id \in failed THEN 0 ELSE 1
        /\ \A i \in 1..Len(posts_data) : posts_data[i].id \in Range(post_ids)

C2_Witness ==
  /\ pool
  /\ pc = "process"
  /\ Len(futures) >= 2
  /\ Cardinality(failed) >= 2
  /\ Len(posts_data) >= 2

\* C3: the bundle analyze_subreddit returns carries a skipped-count equal to
\* the number of hydration calls that failed.
C3_SkippedCountInBundle ==
  pc = "done" =>
    /\ "skipped_count" \in DOMAIN bundle
    /\ bundle.skipped_count = Cardinality(failed)

\* C4: a failure while obtaining or extracting one record never aborts the
\* run, on the multithreaded path and on the sequential path alike.
C4_ItemFailureNeverAborts == ~(pc = "error" /\ err = "item")

\* C5 as claimed: one listing call on the multithreaded path and none on the
\* sequential path, and one hydration call for every id that survives into
\* the result.
C5_CallsAsClaimed ==
  Collected =>
    /\ listing_calls = IF pool THEN 1 ELSE 0
    /\ \A i \in 1..Len(posts_data) : hydrate_calls[posts_data[i].id] = 1

\* C5 amended: one run issues exactly one listing call on either path; on the
\* multithreaded path exactly one hydration call is issued for each collected
\* id (so for each surviving one) and none for any other id; on the sequential
\* path no hydration call is issued at all.
C5_Calls ==
  /\ pc # "start" => listing_calls = 1
  /\ \A id \in DOMAIN hydrate_calls : hydrate_calls[id] <= 1
  /\ Collected =>
       \A id \in DOMAIN hydrate_calls :
         hydrate_calls[id] = IF pool /\ id \in Range(post_ids) THEN 1 ELSE 0

C5_Witness ==
  /\ pool
  /\ pc = "analyze"
  /\ failed # {}
  /\ Len(post_ids) < Len(listing)

\* C6: after a KeyboardInterrupt reached the coordinating thread no batch
\* that had not started yet starts hydrating.
C6_NoBatchStartsAfterInterrupt == started_after = {}

\* C7: while _process_dataframe or analyze_flair_performance executes no
\* batch is queued or running, no worker is in a batch, and the records they
\* see contain the result of every submitted batch.
C7_HydrationBarrier ==
  pc \in {"process", "analyze"} =>
    /\ Queued = {}
    /\ Running = {}
    /\ \A w \in DOMAIN workers : workers[w] = Idle
    /\ \A k \in 1..Len(futures) :
         /\ futures[k].state = "done"
         /\ Range(futures[k].result) \subseteq Range(posts_data)
    /\ pc = "analyze" => {r.id : r \in Range(df)} = {r.id : r \in Range(posts_data)}

C7_Witness ==
  /\ pc = "analyze"
  /\ pool
  /\ Len(futures) = 3
  /\ max_workers = 2
  /\ Len(df) >= 3

\* C8: the collected sequence (ids on the multithreaded path, records on the
\* sequential path) is always a prefix of the ranked listing of at most limit
\* items, and once collection has ended it is the first min(limit, |listing|)
\* items.
C8_RankedPrefix ==
  /\ Len(post_ids) <= Min(limit, Len(listing))
  /\ post_ids = SubSeq(listing, 1, Len(post_ids))
  /\ pool => Len(post_ids) = Min(limit, Len(listing))
  /\ ~pool =>
       /\ Len(posts_data) <= Min(limit, Len(listing))
       /\ \A i \in 1..Len(posts_data) : posts_data[i].id = listing[i]
       /\ Collected => Len(posts_data) = Min(limit, Len(listing))

C8_Witness ==
  /\ pc = "create_pool"
  /\ Len(post_ids) = limit
  /\ limit >= 3
  /\ Len(listing) > limit

\* C9: when limit < batch_size or multithreading is disabled the sequential
\* path is taken: no id is collected, no pool is created, no hydration call
\* is made and the records are those of the listing, in order.
C9_SequentialFallback ==
  (limit < batch_size \/ ~use_multithreading) =>
    /\ pc \notin {"collect_ids", "create_pool", "submit", "as_completed", "shutdown"}
    /\ post_ids = <<>>
    /\ ~pool
    /\ futures = <<>>
    /\ \A id \in DOMAIN hydrate_calls : hydrate_calls[id] = 0
    /\ \A i \in 1..Len(posts_data) :
         posts_data[i] = extract_post_data(SourcePost(listing[i]))

C9_Witness ==
  /\ use_multithreading
  /\ limit < batch_size
  /\ pc = "process"
  /\ Len(posts_data) = limit
  /\ limit >= 2

\* C10: a failure of the listing call ends scrape_subreddit in an error: the
\* listing was called once, no pool exists and no batch was submitted, and no
\* record set (frame or bundle) is produced.
C10_ListingFailureFatal ==
  err = "listing" =>
    /\ pc = "error"
    /\ listing_calls = 1
    /\ ~pool
    /\ futures = <<>>
    /\ \A id \in DOMAIN hydrate_calls : hydrate_calls[id] = 0
    /\ df = <<>>
    /\ bundle = NoBundle

C10_Witness ==
  /\ err = "listing"
  /\ pc = "error"
  /\ Len(post_ids) >= 2

\* ------------------------------------------------------- analysis claims
\* The call has computed the threshold / the stats / the metrics.
ThresholdComputed ==
  \/ pc \in {"a_mark", "a_stats", "a_metrics", "a_print", "a_return", "returned"}
  \/ pc = "error" /\ err \in {"ZeroDivisionError", "TypeError"}
StatsComputed ==
  \/ pc \in {"a_metrics", "a_print", "a_return", "returned"}
  \/ pc = "error" /\ err \in {"ZeroDivisionError", "TypeError"}
MetricsComputed ==
  \/ pc \in {"a_print", "a_return", "returned"}
  \/ pc = "error" /\ err = "TypeError"

RankedLabels == {flair_stats[i].flair : i \in 1..Len(flair_stats)}
RankOf(f) == CHOOSE i \in 1..Len(flair_stats) : flair_stats[i].flair = f
\* C11 as claimed: for the scores [5, 10, 50, 60, 100] and P = 80 the
\* threshold is 74.
C11_ThresholdIs74 ==
  (input_df = ExampleFrame /\ viral_threshold = 80 /\ ThresholdComputed)
    => score_threshold = 100 * 74

\* C11 amended: for the scores [5, 10, 50, 60, 100] and P = 80 the linearly
\* interpolated threshold is 68 (rank 3.2: 60 + 0.2 * (100 - 60)).
C11_ThresholdIs68 ==
  (input_df = ExampleFrame /\ viral_threshold = 80 /\ ThresholdComputed)
    => score_threshold = 100 * 68

C11_Witness ==
  /\ input_df = ExampleFrame
  /\ viral_threshold = 80
  /\ pc = "a_mark"

\* C12: for {A:100, A:10, B:50, B:5, B:60}, P = 80, M = 2 the call returns,
\* exactly the record A:100 is viral, A and B are both ranked, A has
\* viral_rate 1/2 and B has 0, and A is ranked before B.
C12_EndToEnd ==
  (input_df = ExampleFrame /\ viral_threshold = 80 /\ min_posts_arg = 2) =>
    /\ pc # "error"
    /\ pc = "returned" =>
         /\ \A i \in 1..Len(analysis_df) :
              analysis_df[i].is_viral <=>
                (analysis_df[i].flair = "A" /\ analysis_df[i].score = 100)
         /\ Cardinality({i \in 1..Len(analysis_df) : analysis_df[i].is_viral}) = 1
         /\ Len(analysis_results.flair_stats) = 2
         /\ RankedLabels = {"A", "B"}
         /\ FracEq(flair_stats[RankOf("A")].viral_rate, Frac(1, 2))
         /\ FracEq(flair_stats[RankOf("B")].viral_rate, Frac(0, 1))
         /\ RankOf("A") < RankOf("B")

C12_Witness ==
  /\ input_df = ExampleFrame
  /\ viral_threshold = 80
  /\ min_posts_arg = 2
  /\ pc = "returned"
  /\ analysis_results.metrics.most_viral_flair = "A"

\* C13: for a non-empty record set the threshold is monotone in the
\* percentile: P1 < P2 implies threshold(P1) <= threshold(P2); the threshold
\* the call computed is the one of its own percentile.
MonotonePercentiles == {p \in 0..100 : p % 10 = 0}

C13_PercentileMonotone ==
  (pc = "a_mark" /\ input_df # <<>>) =>
    LET ps == MonotonePercentiles \cup {viral_threshold}
        threshold == [p \in ps |-> Quantile100(ScoresOf(input_df), p)]
    IN /\ \A p1, p2 \in ps : p1 < p2 => threshold[p1] <= threshold[p2]
       /\ score_threshold = threshold[viral_threshold]

C13_Witness ==
  /\ pc = "a_mark"
  /\ Len(input_df) = 3
  /\ viral_threshold = 50
  /\ \E p \in MonotonePercentiles :
       /\ p < 50
       /\ Quantile100(ScoresOf(input_df), p) < score_threshold
  /\ score_threshold < Quantile100(ScoresOf(input_df), 100)

\* C14: for normalized records, a record is viral exactly when its score is
\* >= the threshold, and the viral counts of the groups (one per distinct
\* flair, before the min_posts filter) add up to the number of records whose
\* score is >= the threshold, which is total_viral_posts.
AtOrAbove == {i \in 1..Len(input_df) : 100 * input_df[i].score >= score_threshold}
ViralInGroups ==
  LET RECURSIVE sum(_)
      sum(F) == IF F = {} THEN 0
                ELSE LET f == CHOOSE g \in F : TRUE
                     IN GroupStats(analysis_df, f).num_viral_posts + sum(F \ {f})
  IN sum(GroupLabels(analysis_df))

C14_ViralCounts ==
  (StatsComputed /\ input_df # <<>>) =>
    /\ \A i \in 1..Len(analysis_df) : analysis_df[i].is_viral <=> i \in AtOrAbove
    /\ ViralInGroups = Cardinality(AtOrAbove)
    /\ MetricsComputed => overall_metrics.total_viral_posts = Cardinality(AtOrAbove)

C14_Witness ==
  /\ pc = "returned"
  /\ Cardinality(GroupLabels(analysis_df)) = 2
  /\ \E i \in 1..Len(analysis_df) :
       /\ 100 * analysis_df[i].score = score_threshold
       /\ analysis_df[i].is_viral
  /\ \E i \in 1..Len(analysis_df) : ~analysis_df[i].is_viral
  /\ overall_metrics.total_viral_posts >= 2

\* C15: the ranked list holds exactly the flairs with at least min_posts
\* records, each once, while total_posts counts every record, total_flairs
\* every distinct flair, and analyzed_flairs is the length of the ranked list.
CountIn(rows, f) == Cardinality({i \in 1..Len(rows) : rows[i].flair = f})

C15_FilterOnlyRanks ==
  MetricsComputed =>
    /\ RankedLabels = {f \in GroupLabels(input_df) : CountIn(input_df, f) >= min_posts_arg}
    /\ Len(flair_stats) = Cardinality(RankedLabels)
    /\ \A i \in 1..Len(flair_stats) :
         flair_stats[i].total_posts = CountIn(input_df, flair_stats[i].flair)
    /\ overall_metrics.total_posts = Len(input_df)
    /\ overall_metrics.total_flairs = Cardinality(GroupLabels(input_df))
    /\ overall_metrics.analyzed_flairs = Len(flair_stats)
    /\ overall_metrics.analyzed_flairs <= overall_metrics.total_flairs

C15_Witness ==
  /\ pc = "returned"
  /\ input_df = FilterFrame
  /\ min_posts_arg = 5
  /\ RankedLabels = {"A"}
  /\ overall_metrics.total_flairs = 2
  /\ overall_metrics.total_posts = 6

\* C16: when no flair has min_posts records the call does not raise: it
\* returns an empty ranked list and null top-category fields.
NoSurvivor ==
  \A f \in GroupLabels(input_df) : CountIn(input_df, f) < min_posts_arg

C16_NoSurvivorReturns ==
  (NoSurvivor /\ input_df # <<>> /\ MissingColumns(columns) = {}
     /\ viral_threshold \in 0..100) =>
    /\ pc # "error"
    /\ pc = "returned" =>
         /\ analysis_results.flair_stats = <<>>
         /\ analysis_results.metrics.most_viral_flair = NoValue
         /\ analysis_results.metrics.highest_avg_score_flair = NoValue

\* C17: the ranked list is in non-increasing order of viral_rate, and
\* most_viral_flair is a flair of greatest viral_rate in the list.
C17_SortedByViralRate ==
  StatsComputed =>
    /\ \A i \in 1..(Len(flair_stats) - 1) :
         ~FracLess(flair_stats[i].viral_rate, flair_stats[i + 1].viral_rate)
    /\ (MetricsComputed /\ flair_stats # <<>>) =>
         /\ overall_metrics.most_viral_flair \in RankedLabels
         /\ \A i \in 1..Len(flair_stats) :
              ~FracLess(flair_stats[RankOf(overall_metrics.most_viral_flair)].viral_rate,
                        flair_stats[i].viral_rate)
         /\ overall_metrics.most_viral_rate =
              flair_stats[RankOf(overall_metrics.most_viral_flair)].viral_rate

C17_Witness ==
  /\ pc = "returned"
  /\ Len(flair_stats) = 2
  /\ FracLess(flair_stats[2].viral_rate, flair_stats[1].viral_rate)
  /\ flair_stats[1].flair = "B"

\* C18: two adjacent ranked flairs of equal viral_rate are in ascending order
\* of their labels.
C18_TiesByLabel ==
  StatsComputed =>
    \A i \in 1..(Len(flair_stats) - 1) :
      FracEq(flair_stats[i].viral_rate, flair_stats[i + 1].viral_rate)
        => LabelRank(flair_stats[i].flair) < LabelRank(flair_stats[i + 1].flair)

\* C19: the call fails with the validation error (the ValueError of the
\* required-column check) when the score column is absent and also when the
\* record set is empty, before anything else is computed.
C19_ValidationError ==
  (("score" \notin columns \/ input_df = <<>>) /\ viral_threshold \in 0..100) =>
    /\ pc \in {"a_validate", "error"}
    /\ pc = "error" => err = "ValueError: required column"

\* C20: an invalid parameter (percentile outside 0..100, negative min_posts,
\* batch_size <= 0, max_workers <= 0) ends the run in an error state before
\* any work is done: the listing is never called, nothing is marked, and no
\* result is produced.
InvalidParameters ==
  \/ viral_threshold \notin 0..100
  \/ min_posts_arg < 0
  \/ batch_size <= 0
  \/ max_workers <= 0

C20_InvalidParametersRejected ==
  InvalidParameters =>
    /\ pc \notin {"done", "returned"}
    /\ listing_calls = 0
    /\ analysis_df = <<>>
    /\ pc = "error" => err \in {"ValueError: percentile", "ValueError: max_workers",
                                "ZeroDivisionError"}

\* C21: the result does not depend on the order of the records: for every
\* permutation of the record collection, the same P, M (and platform) give the
\* same threshold, the same set of per-flair statistics, the same ranked list
\* and the same metrics, most_viral_flair and highest_avg_score_flair included.
\* Every collection is a permutation of a sorted one, so the property is
\* stated for the sorted collections and all of their permutations.
RowKey(r) == <<LabelRank(r.flair), r.score, r.num_comments>>
KeyLeq(a, b) ==
  \/ a[1] < b[1]
  \/ a[1] = b[1] /\ a[2] < b[2]
  \/ a[1] = b[1] /\ a[2] = b[2] /\ a[3] <= b[3]
SortedFrame(rows) ==
  \A i \in 1..(Len(rows) - 1) : KeyLeq(RowKey(rows[i]), RowKey(rows[i + 1]))
IndexPermutations(n) == {p \in [1..n -> 1..n] : \A i, j \in 1..n : i # j => p[i] # p[j]}
Permuted(rows, p) == [i \in 1..Len(rows) |-> rows[p[i]]]
Marked(rows, P) ==
  LET t == Quantile100(ScoresOf(rows), P)
  IN [i \in 1..Len(rows) |-> analysis_row(rows[i], t)]
RankedOf(marked, M) ==
  SortValues(FilteredStats(marked, M), GroupOrder(marked), tie_rank)

C21_OrderIndependent ==
  (pc = "a_print" /\ SortedFrame(input_df)) =>
    \A p \in IndexPermutations(Len(input_df)) :
      LET rows == Permuted(input_df, p)
          marked == Marked(rows, viral_threshold)
          ranked == RankedOf(marked, min_posts_arg)
      IN /\ Quantile100(ScoresOf(rows), viral_threshold) = score_threshold
         /\ AllStats(marked) = AllStats(analysis_df)
         /\ ranked = flair_stats
         /\ calculate_overall_metrics(marked, ranked) = overall_metrics

C21_Witness ==
  /\ pc = "a_print"
  /\ SortedFrame(input_df)
  /\ Len(input_df) = 3
  /\ input_df[1].flair = "A"
  /\ input_df[3].flair = "B"
  /\ input_df[1].score # input_df[3].score
  /\ tie_rank = "reversed"
  /\ Len(flair_stats) = 2
  /\ FracEq(flair_stats[1].viral_rate, flair_stats[2].viral_rate)

\* C22: analyze_flair_performance leaves the caller's record collection as it
\* was (no row changes, no column is added), and a second call on the same
\* collection with the same P and M returns the same threshold, ranked
\* statistics and metrics as the first.
C22_NoHiddenState ==
  /\ []((calls = 2 /\ pc = "returned") => analysis_results = first_results)
  /\ [][input_df' = input_df /\ columns' = columns]_vars

C22_Witness ==
  /\ calls = 2
  /\ pc = "returned"
  /\ Len(analysis_results.flair_stats) = 2
  /\ tie_rank = "reversed"
  /\ \E i \in 1..Len(analysis_df) : analysis_df[i].is_viral
  /\ \A i \in 1..Len(input_df) : DOMAIN input_df[i] = {"flair", "score", "num_comments"}

\* ------------------------------------------------------- scraper claims
\* C23: after _process_dataframe no record has an absent flair: an absent raw
\* label became "No Flair", a present one is kept as it was, and the number
\* of records and their ids are those of the collected records.
Normalized ==
  \/ pc \in {"analyze", "done"}
  \/ pc = "error" /\ err = "TypeError"

C23_NoAbsentLabel ==
  Normalized =>
    /\ Len(df) = Len(posts_data)
    /\ \A i \in 1..Len(df) :
         /\ df[i].id = posts_data[i].id
         /\ df[i].flair # Absent
         /\ posts_data[i].flair = Absent => df[i].flair = NoFlair
         /\ posts_data[i].flair # Absent => df[i].flair = posts_data[i].flair

C23_Witness ==
  /\ pc = "analyze"
  /\ \E i \in 1..Len(df) : posts_data[i].flair = Absent /\ df[i].flair = NoFlair
  /\ \E i \in 1..Len(df) : df[i].flair = "A"

\* C24: the collected ids are cut into consecutive batches of exactly
\* batch_size ids, the last one possibly shorter: the batches concatenated in
\* submission order are the id list, no batch is empty, and there are
\* ceil(|ids| / batch_size) of them (none when no id was collected).
BatchIds ==
  LET RECURSIVE cat(_)
      cat(k) == IF k = 0 THEN <<>> ELSE cat(k - 1) \o futures[k].ids
  IN cat(Len(futures))

C24_BatchPartition ==
  (pool /\ pc # "submit") =>
    /\ BatchIds = post_ids
    /\ \A k \in 1..Len(futures) :
         /\ Len(futures[k].ids) >= 1
         /\ k < Len(futures) => Len(futures[k].ids) = batch_size
         /\ Len(futures[k].ids) <= batch_size
    /\ Len(futures) = (Len(post_ids) + batch_size - 1) \div batch_size
    /\ \A id \in Range(post_ids) :
         Cardinality({k \in 1..Len(futures) : id \in Range(futures[k].ids)}) = 1

C24_Witness ==
  /\ pc = "as_completed"
  /\ Len(futures) = 3
  /\ batch_size = 2
  /\ Len(futures[3].ids) = 1

\* C25: posts_data is only ever changed by the coordinating thread, in a step
\* in which no worker thread moves, and a worker's step leaves it alone; under
\* every interleaving each record of a collected batch is in posts_data
\* exactly once and posts_data holds nothing else.
CollectedRows ==
  {r \in UNION {Range(futures[k].result) : k \in 1..Len(futures)} :
     \E k \in 1..Len(futures) : futures[k].collected /\ r \in Range(futures[k].result)}

C25_SingleWriter ==
  /\ [](pool =>
          /\ Range(posts_data) = CollectedRows
          /\ \A i, j \in 1..Len(posts_data) :
               posts_data[i].id = posts_data[j].id => i = j)
  /\ [][/\ posts_data' # posts_data =>
             /\ pc \in {"as_completed", "sequential"}
             /\ workers' = workers
        /\ workers' # workers => posts_data' = posts_data]_vars

C25_Witness ==
  /\ pc = "as_completed"
  /\ max_workers = 2
  /\ Cardinality(Running) = 2
  /\ \A w \in DOMAIN workers : Len(workers[w].batch_data) >= 1
  /\ Len(posts_data) >= 2

\* ------------------------------------------------ viral_score claims
\* The greatest mean score over every group of the frame, filtered or not.
MeanScores == {GroupStats(analysis_df, f).avg_score : f \in GroupLabels(analysis_df)}
MaxMeanScore == CHOOSE m \in MeanScores : \A a \in MeanScores : ~FracLess(m, a)
DroppedGroups ==
  {f \in GroupLabels(analysis_df) : CountIn(analysis_df, f) < min_posts_arg}

\* C26: the score term of every ranked flair is its mean score divided by the
\* greatest mean score over ALL groups, those the min_posts filter removes
\* included, so a surviving flair's viral_score is what it would be with no
\* filter at all.
C26_DenominatorBeforeFilter ==
  StatsComputed =>
    \A i \in 1..Len(flair_stats) :
      /\ flair_stats[i].score_term = ScoreTerm(flair_stats[i].avg_score, MaxMeanScore)
      /\ flair_stats[i].viral_score =
           ViralScore(flair_stats[i], ScoreTerm(flair_stats[i].avg_score, MaxMeanScore))
      /\ flair_stats[i] \in FilteredStats(analysis_df, 0)

C26_Witness ==
  /\ pc = "returned"
  /\ Len(flair_stats) = 1
  /\ DroppedGroups # {}
  /\ \A f \in DroppedGroups :
       FracLess(flair_stats[1].avg_score, GroupStats(analysis_df, f).avg_score)
  /\ flair_stats[1].score_term.kind = "finite"
  /\ flair_stats[1].score_term.num < flair_stats[1].score_term.den
  /\ flair_stats[1].score_term.num > 0

\* C27: the divisor of each derived ratio is at least 1, also for records
\* with a zero or negative score or with no comments: comment_ratio is
\* num_comments / max(score, 1) and efficiency is score / max(num_comments, 1).
C27_ClampedDenominators ==
  /\ Normalized =>
       \A i \in 1..Len(df) :
         /\ df[i].comment_ratio.den >= 1
         /\ df[i].comment_ratio.den = Max(df[i].score, 1)
         /\ df[i].comment_ratio.num = df[i].num_comments
  /\ \A i \in 1..Len(analysis_df) :
       /\ analysis_df[i].efficiency.den >= 1
       /\ analysis_df[i].efficiency.den = Max(analysis_df[i].num_comments, 1)
       /\ analysis_df[i].efficiency.num = analysis_df[i].score

C27_Witness ==
  /\ pc = "analyze"
  /\ \E i \in 1..Len(df) : df[i].score = 0 /\ df[i].comment_ratio.den = 1
  /\ \E i \in 1..Len(df) : df[i].score < 0 /\ df[i].comment_ratio.den = 1
  /\ \E i \in 1..Len(df) : df[i].score > 1 /\ df[i].comment_ratio.den = df[i].score

\* C28: for a non-empty record set and P in 0..100 the threshold lies between
\* the least and the greatest score, so a record of greatest score is viral
\* and total_viral_posts >= 1; with P = 0 every record is viral.
ScoreSet == {input_df[i].score : i \in 1..Len(input_df)}

C28_ThresholdInRange ==
  (input_df # <<>> /\ ThresholdComputed) =>
    /\ \E lo, hi \in ScoreSet :
         /\ \A v \in ScoreSet : lo <= v /\ v <= hi
         /\ 100 * lo <= score_threshold
         /\ score_threshold <= 100 * hi
         /\ StatsComputed =>
              \A i \in 1..Len(analysis_df) :
                analysis_df[i].score = hi => analysis_df[i].is_viral
    /\ MetricsComputed => overall_metrics.total_viral_posts >= 1
    /\ (StatsComputed /\ viral_threshold = 0) =>
         \A i \in 1..Len(analysis_df) : analysis_df[i].is_viral

C28_Witness ==
  /\ pc = "returned"
  /\ viral_threshold = 0
  /\ Cardinality(ScoreSet) = 3
  /\ overall_metrics.total_viral_posts = 3

\* C29: grouping partitions the records, also when a record reaches the
\* analyzer with an absent flair: the total_posts of the groups (before the
\* min_posts filter) add up to the number of records, there are total_flairs
\* groups, and 0 <= num_viral_posts <= total_posts in every group.
GroupedPosts ==
  LET RECURSIVE sum(_)
      sum(F) == IF F = {} THEN 0
                ELSE LET f == CHOOSE g \in F : TRUE
                     IN GroupStats(analysis_df, f).total_posts + sum(F \ {f})
  IN sum(GroupLabels(analysis_df))

C29_GroupingPartitions ==
  MetricsComputed =>
    /\ GroupedPosts = Len(input_df)
    /\ Cardinality(AllStats(analysis_df)) = overall_metrics.total_flairs
    /\ \A st \in AllStats(analysis_df) :
         0 <= st.num_viral_posts /\ st.num_viral_posts <= st.total_posts

\* C30: for a non-empty record set with integer scores the score term
\* mean_score / max_mean_score of every group is computed without a division
\* by zero and lies in [0, 1], it is exactly 1 for a group of greatest mean
\* score, and the viral_score of every group lies in [0, 1].
\* viral_score = rational - 0.2/sqrt(n) is below 0 iff rational <= 0 or
\* 25 * n * rational^2 < 1, and above 1 iff rational > 1 and
\* 25 * n * (rational - 1)^2 > 1.
RECURSIVE Gcd(_, _)
Gcd(a, b) == IF b = 0 THEN a ELSE Gcd(b, a % b)
Abs(x) == IF x < 0 THEN -x ELSE x
Lowest(fr) ==
  LET g == Gcd(Abs(fr.num), Abs(fr.den))
  IN [num |-> fr.num \div g, den |-> fr.den \div g]

ViralScoreBelowZero(vs) ==
  LET r == Lowest(vs.rational)
  IN \/ r.num <= 0
     \/ 25 * vs.inv_sqrt_of * r.num * r.num < r.den * r.den
ViralScoreAboveOne(vs) ==
  LET r == Lowest(vs.rational)
  IN /\ r.num > r.den
     /\ 25 * vs.inv_sqrt_of * (r.num - r.den) * (r.num - r.den) > r.den * r.den

C30_ViralScoreInUnitInterval ==
  (StatsComputed /\ input_df # <<>>) =>
    \A st \in AllStats(analysis_df) :
      /\ st.score_term.kind = "finite"
      /\ 0 <= st.score_term.num
      /\ st.score_term.num <= st.score_term.den
      /\ FracEq(st.avg_score, MaxMeanScore) => st.score_term.num = st.score_term.den
      /\ st.viral_score.kind = "finite"
      /\ ~ViralScoreBelowZero(st.viral_score)
      /\ ~ViralScoreAboveOne(st.viral_score)

====
